---- MODULE Spec2Model ----
(***************************************************************************)
(* Model of the single-file Sudoku game src/src/script.js: the backtracking *)
(* generator and solver, the puzzle carver, and the play session (board    *)
(* state, prefilled mask, undo history, mistake counter, conflict marks).  *)
(* Grids are functions 0..80 -> 0..9, indexed as in the source.            *)
(***************************************************************************)
EXTENDS Integers, Sequences, FiniteSets, TLC

\* ------------------------------------------------------------------------
\* Bounds of the model (not program constants)
\* ------------------------------------------------------------------------
\* Math.random is an input of the model: a run of newPuzzle is explored on
\* sequences of draws (see Draw).  Sequences 1..MaxRuns are the runs a click
\* on New can take in the session
MaxRuns == 2
\* number of calls of place a sequence of draws provides for
StreamLen == 2048
\* values of the difficulty selector tried by newPuzzle: 0..MaxRemovals
MaxRemovals == 2
\* longest undo history explored
MaxHistory == 2
\* largest mistake count explored
MaxMistakes == 1
\* the player points at cells at most MaxReach to the right of an editable cell
MaxReach == 1
\* the player types the digits missing from the puzzle and the digits 1..MaxExtraDigit
MaxExtraDigit == 0

\* ------------------------------------------------------------------------
\* Program constants
\* ------------------------------------------------------------------------
Cells == 0..80
Digits == 1..9
\* the value the solver returns when the grid has no completion
null == << >>

\* ------------------------------------------------------------------------
\* shuffle(a): Fisher-Yates from the last index down to 1.  a is a function
\* on 0..len-1.  j = Math.floor(Math.random() * (i + 1)) is an input: js[i]
\* is the j the swap at index i draws, a value of 0..i.
\* ------------------------------------------------------------------------
\* [a[i], a[j]] = [a[j], a[i]]
swapped(a, i, j) == [a EXCEPT ![i] = a[j], ![j] = a[i]]

\* the element of a set of one element
only(S) == CHOOSE x \in S : TRUE

\* the array after the loop iterations i = hi down to lo (the range is
\* halved to keep the evaluation shallow)
RECURSIVE shuffleRun(_, _, _, _)
shuffleRun(a, hi, lo, js) ==
    IF hi < lo THEN a
    ELSE IF hi = lo THEN swapped(a, hi, js[hi])
    ELSE only({shuffleRun(b, (hi + lo) \div 2, lo, js)
                 : b \in {shuffleRun(a, hi, (hi + lo) \div 2 + 1, js)}})

\* the array shuffle(a) returns on the draws js, for a of length len
shuffle(a, len, js) == shuffleRun(a, len - 1, 1, js)

\* ------------------------------------------------------------------------
\* generateSolved(): backtracking fill of an empty grid, candidates of each
\* cell in a freshly shuffled order.  A search state is the record of the
\* locals grid, rows, cols, blocks and of the active calls of place (frames:
\* [pos, nums, si, k], innermost last; si is the index of the next swap of
\* the shuffle of nums, 0 when it is done; k is the index of the candidate
\* under test).  genNext is one loop iteration of the innermost call.
\* generateSolved(cand) is the grid returned when the shuffle of the c-th
\* call of place draws cand[c].
\* ------------------------------------------------------------------------
blockIndex(r, c) == (r \div 3) * 3 + (c \div 3)

\* a plausible slip: the block is not looked at
takenNoBlock(n, r, c, rws, cls, blks) == n \in rws[r] \/ n \in cls[c]

\* variant: the column sets are not consulted
takenNoCol(n, r, c, rws, cls, blks) == n \in rws[r] \/ n \in blks[blockIndex(r, c)]

\* rows[r].has(n) || cols[c].has(n) || blocks[blockIndex(r, c)].has(n)
taken(n, r, c, rws, cls, blks) ==
    n \in rws[r] \/ n \in cls[c] \/ n \in blks[blockIndex(r, c)]

\* place(pos) has been entered, pos < 81: nums = [1..9], not yet shuffled
entered(pos) == [pos |-> pos, nums |-> [k \in 0..8 |-> k + 1], si |-> 8, k |-> 0]

\* generateSolved() has entered place(0)
genStart ==
    [grid |-> [i \in 0..80 |-> 0],
     rows |-> [r \in 0..8 |-> {}],
     cols |-> [c \in 0..8 |-> {}],
     blocks |-> [b \in 0..8 |-> {}],
     frames |-> <<entered(0)>>]

\* the search state one iteration of the innermost call of place leads to
\* from s (s.frames not empty):
\*  - one swap of the shuffle of its candidates, with the j drawn;
\*  - the candidates are used up: the call returns false, the caller takes
\*    its candidate back and goes on with the next one; when place(0) itself
\*    returns false, generateSolved returns the grid as it is;
\*  - the candidate is in the row, column or block: continue;
\*  - the candidate is free: it is written and place(pos + 1) is entered,
\*    which returns true at once for pos + 1 = 81 (every caller then returns
\*    true).
\* frames is empty when generateSolved has returned.
genNext(s, j) ==
    LET d == Len(s.frames)
        t == s.frames[d]
        r == t.pos \div 9
        c == t.pos % 9
        b == blockIndex(r, c)
    IN IF t.si > 0
       THEN [s EXCEPT !.frames[d].nums = swapped(t.nums, t.si, j),
                      !.frames[d].si = t.si - 1]
       ELSE IF t.k > 8
       THEN IF d = 1
            THEN [s EXCEPT !.frames = << >>]
            ELSE LET p == s.frames[d - 1]
                     pr == p.pos \div 9
                     pcol == p.pos % 9
                     pb == blockIndex(pr, pcol)
                     n == p.nums[p.k]
                 IN [grid |-> [s.grid EXCEPT ![p.pos] = 0],
                     rows |-> [s.rows EXCEPT ![pr] = @ \ {n}],
                     cols |-> [s.cols EXCEPT ![pcol] = @ \ {n}],
                     blocks |-> [s.blocks EXCEPT ![pb] = @ \ {n}],
                     frames |-> [SubSeq(s.frames, 1, d - 1) EXCEPT ![d - 1].k = @ + 1]]
       ELSE LET n == t.nums[t.k]
            IN IF taken(n, r, c, s.rows, s.cols, s.blocks)
               THEN [s EXCEPT !.frames[d].k = t.k + 1]
               ELSE [grid |-> [s.grid EXCEPT ![t.pos] = n],
                     rows |-> [s.rows EXCEPT ![r] = @ \cup {n}],
                     cols |-> [s.cols EXCEPT ![c] = @ \cup {n}],
                     blocks |-> [s.blocks EXCEPT ![b] = @ \cup {n}],
                     frames |-> IF t.pos + 1 = 81 THEN << >>
                                ELSE Append(s.frames, entered(t.pos + 1))]

\* A run of generateSolved on the draws cand: s is the search state, calls
\* the number of calls of place entered so far (the innermost one shuffles
\* with cand[calls]); dry is set when the run asks for the draws of a call
\* beyond the end of cand.
runStart == [s |-> genStart, calls |-> 1, dry |-> FALSE]

ended(run) == run.s.frames = << >> \/ run.dry

\* one loop iteration of the run
runNext(run, cand) ==
    LET t == run.s.frames[Len(run.s.frames)]
    IN IF t.si > 0 /\ run.calls > Len(cand)
       THEN [run EXCEPT !.dry = TRUE]
       ELSE LET nxt == genNext(run.s, IF t.si > 0 THEN cand[run.calls][t.si] ELSE 0)
            IN [s |-> nxt,
                calls |-> IF Len(nxt.frames) > Len(run.s.frames)
                          THEN run.calls + 1 ELSE run.calls,
                dry |-> FALSE]

\* n iterations later; a run that has ended stays as it is (n is halved to
\* keep the evaluation shallow)
RECURSIVE genRun(_, _, _)
genRun(run, n, cand) ==
    IF n = 1
    THEN IF ended(run) THEN run ELSE runNext(run, cand)
    ELSE only({genRun(mid, n - n \div 2, cand) : mid \in {genRun(run, n \div 2, cand)}})

\* the run until every call of place has returned
RECURSIVE genFinish(_, _)
genFinish(run, cand) ==
    IF ended(run) THEN run
    ELSE only({genFinish(mid, cand) : mid \in {genRun(run, 1024, cand)}})

\* the grid generateSolved() returns on the draws cand
generateSolved(cand) == genFinish(runStart, cand).s.grid

\* ------------------------------------------------------------------------
\* solve(grid): backtracking over the lowest empty index, candidates 1..9
\* ascending; null when the search is exhausted
\* ------------------------------------------------------------------------
\* for (let i = 0; i < 81; i++) if (g[i] === 0) return i; return -1
findEmpty(g) ==
    IF \E i \in Cells : g[i] = 0
    THEN CHOOSE i \in Cells : g[i] = 0 /\ \A j \in 0..(i - 1) : g[j] # 0
    ELSE -1

valid(g, pos, val) ==
    LET r == pos \div 9
        c == pos % 9
        br == r \div 3
        bc == c \div 3
    IN /\ \A i \in 0..8 : g[r * 9 + i] # val /\ g[i * 9 + c] # val
       /\ \A rr \in (br * 3)..(br * 3 + 2) :
            \A cc \in (bc * 3)..(bc * 3 + 2) : g[rr * 9 + cc] # val

\* A search state of solve is the record of the working copy g and of the
\* active calls of backtrack (frames: [pos, n], innermost last; pos is the
\* cell findEmpty gave the call, n the candidate its loop is at); ok is set
\* when a call finds no empty cell and returns true, on which every caller
\* returns true.  frames is empty when the outermost call has returned.

\* backtrack() is called on the working copy g by the calls callers
enterBacktrack(g, callers) ==
    LET pos == findEmpty(g)
    IN IF pos = -1
       THEN [g |-> g, frames |-> << >>, ok |-> TRUE]
       ELSE [g |-> g, frames |-> Append(callers, [pos |-> pos, n |-> 1]), ok |-> FALSE]

\* variant: the candidates of a cell are tried from 9 down to 1 (the n-th
\* candidate tried is 10 - n)
backtrackNextDown(s) ==
    LET d == Len(s.frames)
        t == s.frames[d]
        free == {m \in 1..(10 - t.n) : valid(s.g, t.pos, m)}
    IN IF free = {}
       THEN IF d = 1
            THEN [s EXCEPT !.frames = << >>]
            ELSE [g |-> [s.g EXCEPT ![s.frames[d - 1].pos] = 0],
                  frames |-> [SubSeq(s.frames, 1, d - 1) EXCEPT ![d - 1].n = @ + 1],
                  ok |-> FALSE]
       ELSE LET m == CHOOSE x \in free : \A y \in free : x >= y
            IN enterBacktrack([s.g EXCEPT ![t.pos] = m], [s.frames EXCEPT ![d].n = 10 - m])

\* the search state the innermost call of backtrack leads to from s
\* (s.frames not empty), its loop being at candidate n:
\*  - the candidates from n on that are not valid are passed over
\*    (continue); the first valid one is written and backtrack is called;
\*  - there is none: the loop ends and the call returns false; its caller
\*    empties its own cell again (g[pos] = 0) and goes on with its next
\*    candidate.
backtrackNext(s) ==
    LET d == Len(s.frames)
        t == s.frames[d]
        free == {m \in t.n..9 : valid(s.g, t.pos, m)}
    IN IF free = {}
       THEN IF d = 1
            THEN [s EXCEPT !.frames = << >>]
            ELSE [g |-> [s.g EXCEPT ![s.frames[d - 1].pos] = 0],
                  frames |-> [SubSeq(s.frames, 1, d - 1) EXCEPT ![d - 1].n = @ + 1],
                  ok |-> FALSE]
       ELSE LET m == CHOOSE x \in free : \A y \in free : x <= y
            IN enterBacktrack([s.g EXCEPT ![t.pos] = m], [s.frames EXCEPT ![d].n = m])

\* n steps later; a search that is over stays as it is (n is halved to keep
\* the evaluation shallow)
RECURSIVE backtrackRun(_, _)
backtrackRun(s, n) ==
    IF s.frames = << >> THEN s
    ELSE IF n = 1 THEN backtrackNext(s)
    ELSE only({backtrackRun(mid, n - n \div 2) : mid \in {backtrackRun(s, n \div 2)}})

\* the search until the outermost call has returned
RECURSIVE backtrackFinish(_)
backtrackFinish(s) ==
    IF s.frames = << >> THEN s
    ELSE only({backtrackFinish(mid) : mid \in {backtrackRun(s, 65536)}})

\* the outcome of backtrack() on the working copy g
backtrack(g) == backtrackFinish(enterBacktrack(g, << >>))

\* a plausible slip: the copy keeps only the values below 9 (v < 9 written
\* for v <= 9), so that a 9 of the input is read as an empty cell
solveClamped(g) ==
    LET res == backtrack([i \in Cells |-> IF g[i] < 9 THEN g[i] ELSE 0])
    IN IF res.ok THEN res.g ELSE null

\* const g = grid.slice(); return backtrack() ? g : null
solve(g) ==
    LET res == backtrack(g)
    IN IF res.ok THEN res.g ELSE null

\* ------------------------------------------------------------------------
\* makePuzzle(solved, removals): blank cells in a shuffled order while the
\* solver still finds a completion, until removals cells are blank.  The
\* state of its loop is the record of puzzle and removed.
\* ------------------------------------------------------------------------
\* a plausible slip: the loop stops one removal late (removed > removals)
carveAtLate(st, idx, removals) ==
    IF st.removed > removals THEN st
    ELSE LET cut == [st.puzzle EXCEPT ![idx] = 0]
         IN IF solve(cut) = null THEN st
            ELSE [puzzle |-> cut, removed |-> st.removed + 1]

\* one iteration of the loop, on the cell idx: nothing more is done once
\* removed >= removals (break); the cell is blanked, and filled again when
\* solve finds no completion
carveAt(st, idx, removals) ==
    IF st.removed >= removals THEN st
    ELSE LET cut == [st.puzzle EXCEPT ![idx] = 0]
         IN IF solve(cut) = null THEN st
            ELSE [puzzle |-> cut, removed |-> st.removed + 1]

\* the iterations on the cells at positions lo..hi of the order visit (the
\* range is halved to keep the evaluation shallow)
RECURSIVE carveRun(_, _, _, _, _)
carveRun(st, visit, lo, hi, removals) ==
    IF lo = hi THEN carveAt(st, visit[lo], removals)
    ELSE only({carveRun(mid, visit, (lo + hi) \div 2 + 1, hi, removals)
                 : mid \in {carveRun(st, visit, lo, (lo + hi) \div 2, removals)}})

\* the puzzle the loop leaves when the cells are visited in the order visit
carve(solved, visit, removals) ==
    carveRun([puzzle |-> solved, removed |-> 0], visit, 0, 80, removals).puzzle

\* the puzzle makePuzzle(solved, removals) returns when its shuffle draws js
makePuzzle(solved, removals, js) ==
    carve(solved, shuffle([i \in Cells |-> i], 81, js), removals)

\* ------------------------------------------------------------------------
\* updateConflicts(): the cells that carry the class 'conflict' after the
\* marks are removed and rows, columns and blocks are rescanned
\* ------------------------------------------------------------------------
\* the cells the scan of cell i compares with: its row, its column and its
\* block, i itself left out (rc !== i, cc !== i, k !== i)
scanned(i) ==
    LET r == i \div 9
        c == i % 9
        br == r \div 3
        bc == c \div 3
    IN ({r * 9 + j : j \in 0..8} \cup {j * 9 + c : j \in 0..8}
        \cup {rr * 9 + cc : rr \in (br * 3)..(br * 3 + 2), cc \in (bc * 3)..(bc * 3 + 2)})
       \ {i}

Scanned == [i \in Cells |-> scanned(i)]

\* the nine rows, the nine columns and the nine blocks
Units ==
    {{r * 9 + j : j \in 0..8} : r \in 0..8}
        \cup {{j * 9 + c : j \in 0..8} : c \in 0..8}
        \cup {{rr * 9 + cc : rr \in (br * 3)..(br * 3 + 2), cc \in (bc * 3)..(bc * 3 + 2)}
                : br \in 0..2, bc \in 0..2}

\* a cell is marked when it is not empty and a cell of its scan holds its
\* value; the two then share a unit, which holds fewer than nine different
\* values, so the cells of the other units need no scan
updateConflicts(st) ==
    LET repeated == {u \in Units : Cardinality({st[c] : c \in u}) < 9}
    IN {i \in UNION repeated : st[i] # 0 /\ \E k \in Scanned[i] : st[k] = st[i]}

\* a plausible slip: the comparison with the solution is left out
isSolvedFilled(st, sol) == \A i \in Cells : st[i] # 0

\* the test of checkWin
isSolved(st, sol) == \A i \in Cells : st[i] # 0 /\ st[i] = sol[i]

\* status messages (the dash and the emoji of the source strings are left out)
MsgNew == "New puzzle - good luck!"
MsgWrong == "Wrong number"
MsgNone == ""
MsgWin == "Puzzle complete - well done!"
MsgLocked == "Cell is locked"
MsgSelect == "Select a cell first"
MsgUndo == "Undo"
MsgNoUndo == "Nothing to undo"
MsgHint == "Hint revealed"
MsgNoHint == "No hints - puzzle seems complete"
MsgReveal == "Solution revealed"
MsgConflicts == "There are conflicts - red cells are wrong."
MsgNoConflicts == "No conflicts found."
MsgGenerating == "Generating puzzle..."

VARIABLES
    solution,   \* the answer key
    state,      \* the board the player sees
    prefilled,  \* which cells are given
    selected,   \* selected cell index, -1 when none
    mistakes,   \* number of incorrect inputs
    history,    \* undo stack of [idx, prev]
    conflict,   \* cells whose element carries the class 'conflict'
    statusMsg,  \* text of the status line
    pc,         \* "generateSolved" while the newPuzzle() of the script load runs, then "idle";
                \* "makePuzzle" once its generateSolved, run step by step, has returned
    grid, rows, cols, blocks,   \* locals of generateSolved
    frames,     \* active calls of place: [pos, nums, si, k], innermost last
    order,      \* local of makePuzzle: the visiting order being shuffled
    oi,         \* loop index of that shuffle, 0 when it is done
    draws,      \* the draws of the run under way: [seq, calls], the sequence of draws
                \* Math.random follows and the number of calls of place entered
    arg, ret    \* a call of solve or makePuzzle on its own, and its result

sessionVars == <<solution, state, prefilled, selected, mistakes, history, conflict, statusMsg>>
genVars == <<grid, rows, cols, blocks, frames, order, oi, draws>>
callVars == <<arg, ret>>
vars == <<solution, state, prefilled, selected, mistakes, history, conflict, statusMsg,
          pc, grid, rows, cols, blocks, frames, order, oi, draws, arg, ret>>

\* ------------------------------------------------------------------------
\* Script load: the top-level declarations, then newPuzzle() starts and
\* generateSolved() enters place(0)
\* ------------------------------------------------------------------------
Loaded(q) ==
    /\ solution = [i \in Cells |-> 0]
    /\ state = [i \in Cells |-> 0]
    /\ prefilled = [i \in Cells |-> FALSE]
    /\ selected = -1
    /\ mistakes = 0
    /\ history = << >>
    /\ conflict = {}
    /\ statusMsg = MsgGenerating
    /\ pc = "generateSolved"
    /\ grid = genStart.grid
    /\ rows = genStart.rows
    /\ cols = genStart.cols
    /\ blocks = genStart.blocks
    /\ frames = genStart.frames
    /\ order = [i \in Cells |-> i]
    /\ oi = 80
    /\ draws = [seq |-> q, calls |-> 1]
    /\ arg = [fn |-> "none"]
    /\ ret = null

Init == Loaded(1)

\* ------------------------------------------------------------------------
\* The newPuzzle() of the script load run step by step (for generateSolved,
\* solve and makePuzzle looked at on their own): one loop iteration of the
\* innermost call of place at a time, j being the draw of the iteration when
\* it is a swap of the shuffle (no draw is taken otherwise: j = 0); when
\* place(0) returns, the grid is copied into solution (line 232) and
\* makePuzzle is entered
\* ------------------------------------------------------------------------
GenStep(j) ==
    /\ pc = "generateSolved"
    /\ frames # << >>
    /\ IF frames[Len(frames)].si > 0 THEN j \in 0..frames[Len(frames)].si ELSE j = 0
    /\ LET t == genNext([grid |-> grid, rows |-> rows, cols |-> cols,
                         blocks |-> blocks, frames |-> frames], j)
       IN /\ grid' = t.grid
          /\ rows' = t.rows
          /\ cols' = t.cols
          /\ blocks' = t.blocks
          /\ frames' = t.frames
          /\ solution' = IF t.frames = << >> THEN t.grid ELSE solution
          /\ pc' = IF t.frames = << >> THEN "makePuzzle" ELSE pc
    /\ UNCHANGED <<order, oi>>
    /\ UNCHANGED <<state, prefilled, selected, mistakes, history, conflict, statusMsg>>
    /\ UNCHANGED callVars

\* makePuzzle run step by step: one iteration of the shuffle of its
\* visiting order (line 160), j being its draw
ShuffleOrder(j) ==
    /\ pc = "makePuzzle"
    /\ oi > 0
    /\ j \in 0..oi
    /\ order' = swapped(order, oi, j)
    /\ oi' = oi - 1
    /\ UNCHANGED <<grid, rows, cols, blocks, frames, pc>>
    /\ UNCHANGED sessionVars
    /\ UNCHANGED callVars

\* ------------------------------------------------------------------------
\* The draws explored.  The actions above take the draw of a swap as an
\* input j, any value of 0..i.  The runs explored are those whose draws
\* follow one of a number of sequences: in sequence q the swap at index i
\* draws Draw(q, c, i), in the shuffle of the c-th call of place for c >= 1
\* and in the shuffle of makePuzzle for c = 0.
\* ------------------------------------------------------------------------
Draw(q, c, i) ==
    (((q * 131 + c * 71 + i * 37 + 29082) * (c + 3 * i + q + 233)) % 1009) % (i + 1)

\* the draws of sequence q for a run of generateSolved
candOf(q) == [c \in 1..StreamLen |-> [i \in 1..8 |-> Draw(q, c, i)]]

\* the draws of sequence q for the shuffle of makePuzzle
orderOf(q) == [i \in 1..80 |-> Draw(q, 0, i)]

\* the draw GenStep takes in the run under way (0 when its iteration is not
\* a swap)
NextDraw ==
    IF frames # << >> /\ frames[Len(frames)].si > 0
    THEN Draw(draws.seq, draws.calls, frames[Len(frames)].si)
    ELSE 0

\* a step of generateSolved in the run under way; a call of place that is
\* entered takes the draws of the next shuffle
GenSteps ==
    /\ \E j \in {NextDraw} : GenStep(j)
    /\ draws' = [draws EXCEPT !.calls = IF Len(frames') > Len(frames) THEN @ + 1 ELSE @]

\* a step of the shuffle of makePuzzle in the run under way
ShuffleSteps ==
    /\ \E j \in {Draw(draws.seq, 0, oi)} : ShuffleOrder(j)
    /\ UNCHANGED draws

\* ------------------------------------------------------------------------
\* newPuzzle(): one synchronous run of generateSolved and makePuzzle, at the
\* script load (the call of line 301, under way in Init) and at every click
\* on the New button.  Its inputs are the value of the difficulty selector
\* and the draws of Math.random.  A member of Runs holds the draws of one
\* run (cand for generateSolved, js for the shuffle of makePuzzle) with
\* what the run computes from them: the solved grid and, for each value of
\* the selector, the puzzle, the given mask and the conflict marks render()
\* leaves.
\* ------------------------------------------------------------------------
installed(cand, js, solved) ==
    [cand |-> cand,
     js |-> js,
     solved |-> solved,
     puzzle |-> [removals \in 0..MaxRemovals |-> makePuzzle(solved, removals, js)]]

rendered(run) ==
    [cand |-> run.cand,
     js |-> run.js,
     solution |-> run.solved,
     state |-> run.puzzle,
     prefilled |-> [removals \in 0..MaxRemovals |-> [i \in Cells |-> run.puzzle[removals][i] # 0]],
     conflict |-> [removals \in 0..MaxRemovals |-> updateConflicts(run.puzzle[removals])]]

\* the runs on the sequences of draws 1..MaxRuns
Runs ==
    {rendered(installed(candOf(g.seq), orderOf(g.seq), g.run.s.grid))
       : g \in {h \in {[seq |-> q, run |-> genFinish(runStart, candOf(q))] : q \in 1..MaxRuns}
                  : ~h.run.dry}}

\* a plausible slip: the undo history is not emptied
newPuzzleKeepsHistory(removals, run) ==
    /\ pc \in {"generateSolved", "idle"}
    /\ solution' = run.solution
    /\ state' = run.state[removals]
    /\ prefilled' = run.prefilled[removals]
    /\ conflict' = run.conflict[removals]
    /\ mistakes' = 0
    /\ statusMsg' = MsgNew
    /\ pc' = "idle"
    /\ UNCHANGED <<selected, history, grid, rows, cols, blocks, frames, order, oi, draws, arg, ret>>

\* variant: a new puzzle that keeps the mistake counter
newPuzzleKeepsMistakes(removals, run) ==
    /\ pc \in {"generateSolved", "idle"}
    /\ solution' = run.solution
    /\ state' = run.state[removals]
    /\ prefilled' = run.prefilled[removals]
    /\ conflict' = run.conflict[removals]
    /\ history' = << >>
    /\ statusMsg' = MsgNew
    /\ pc' = "idle"
    /\ UNCHANGED <<selected, mistakes, grid, rows, cols, blocks, frames, order, oi, draws, arg, ret>>

newPuzzle(removals, run) ==
    /\ pc \in {"generateSolved", "idle"}
    /\ solution' = run.solution
    /\ state' = run.state[removals]
    /\ prefilled' = run.prefilled[removals]
    /\ conflict' = run.conflict[removals]
    /\ mistakes' = 0
    /\ history' = << >>
    /\ statusMsg' = MsgNew
    /\ pc' = "idle"
    /\ UNCHANGED selected
    /\ UNCHANGED genVars
    /\ UNCHANGED callVars

\* ------------------------------------------------------------------------
\* The player's inputs
\* ------------------------------------------------------------------------
\* cells the player points at
Pointable == {i \in Cells : \E d \in 0..MaxReach : i - d >= 0 /\ ~prefilled[i - d]}

\* digits the player types
TypedDigits ==
    (1..MaxExtraDigit) \cup ({solution[i] : i \in {j \in Cells : ~prefilled[j]}} \cap Digits)

DigitText == <<"1", "2", "3", "4", "5", "6", "7", "8", "9">>
\* what an input element holds when its 'input' event fires (maxLength 1):
\* nothing, a character that is no digit 1-9, or a typed digit
InputTexts == {"", "0", "a"} \cup {DigitText[d] : d \in TypedDigits}
\* input.value.replace(/[^1-9]/g, '')
onlyDigits(text) == IF \E d \in Digits : DigitText[d] = text THEN text ELSE ""
\* val ? parseInt(val) : 0
parseNum(val) == IF val = "" THEN 0 ELSE CHOOSE d \in Digits : DigitText[d] = val

\* checkWin(): the status line after the call, msg being the line before it
checkWin(st, msg) == IF isSolved(st, solution) THEN MsgWin ELSE msg

\* click on a cell
OnClick(i) ==
    /\ pc = "idle"
    /\ selected' = i
    /\ UNCHANGED <<solution, state, prefilled, mistakes, history, conflict, statusMsg, pc>>
    /\ UNCHANGED genVars
    /\ UNCHANGED callVars

\* 'input' event of the input element of cell i holding text
OnInput(i, text) ==
    /\ pc = "idle"
    /\ LET val == onlyDigits(text)
           idx == i
           prev == state[idx]
           num == parseNum(val)
           wrong == num # 0 /\ solution[idx] # num
       IN IF prefilled[idx]
          THEN UNCHANGED <<state, history, mistakes, conflict, statusMsg>>
          ELSE /\ (prev # num) => Len(history) < MaxHistory
               /\ wrong => mistakes < MaxMistakes
               /\ history' = IF prev # num
                             THEN Append(history, [idx |-> idx, prev |-> prev])
                             ELSE history
               /\ state' = [state EXCEPT ![idx] = num]
               /\ mistakes' = IF wrong THEN mistakes + 1 ELSE mistakes
               /\ conflict' = IF wrong THEN updateConflicts(state') \cup {idx}
                                       ELSE updateConflicts(state') \ {idx}
               /\ statusMsg' = checkWin(state', IF wrong THEN MsgWrong ELSE MsgNone)
    /\ UNCHANGED <<solution, prefilled, selected, pc>>
    /\ UNCHANGED genVars
    /\ UNCHANGED callVars

\* 'keydown' of Backspace or Delete in the input element of cell i
OnBackspace(i) ==
    /\ pc = "idle"
    /\ LET idx == i
       IN IF prefilled[idx]
          THEN UNCHANGED <<state, history, conflict>>
          ELSE /\ Len(history) < MaxHistory
               /\ history' = Append(history, [idx |-> idx, prev |-> state[idx]])
               /\ state' = [state EXCEPT ![idx] = 0]
               /\ conflict' = updateConflicts(state')
    /\ UNCHANGED <<solution, prefilled, selected, mistakes, statusMsg, pc>>
    /\ UNCHANGED genVars
    /\ UNCHANGED callVars

\* click on button n of the number pad
\* variant: the number pad sets the cell without a history entry
OnNumpadNoPush(n) ==
    /\ pc = "idle"
    /\ LET idx == selected
           wrong == solution[idx] # n
       IN IF selected = -1
          THEN /\ statusMsg' = MsgSelect
               /\ UNCHANGED <<state, history, mistakes, conflict>>
          ELSE IF prefilled[idx]
          THEN /\ statusMsg' = MsgLocked
               /\ UNCHANGED <<state, history, mistakes, conflict>>
          ELSE /\ wrong => mistakes < MaxMistakes
               /\ UNCHANGED history
               /\ state' = [state EXCEPT ![idx] = n]
               /\ mistakes' = IF wrong THEN mistakes + 1 ELSE mistakes
               /\ conflict' = IF wrong THEN updateConflicts(state') \cup {idx}
                                       ELSE updateConflicts(state') \ {idx}
               /\ statusMsg' = checkWin(state', IF wrong THEN MsgWrong ELSE MsgNone)
    /\ UNCHANGED <<solution, prefilled, selected, pc>>
    /\ UNCHANGED genVars
    /\ UNCHANGED callVars

OnNumpad(n) ==
    /\ pc = "idle"
    /\ LET idx == selected
           prev == state[idx]
           wrong == solution[idx] # n
       IN IF selected = -1
          THEN /\ statusMsg' = MsgSelect
               /\ UNCHANGED <<state, history, mistakes, conflict>>
          ELSE IF prefilled[idx]
          THEN /\ statusMsg' = MsgLocked
               /\ UNCHANGED <<state, history, mistakes, conflict>>
          ELSE /\ Len(history) < MaxHistory
               /\ wrong => mistakes < MaxMistakes
               /\ history' = Append(history, [idx |-> idx, prev |-> prev])
               /\ state' = [state EXCEPT ![idx] = n]
               /\ mistakes' = IF wrong THEN mistakes + 1 ELSE mistakes
               /\ conflict' = IF wrong THEN updateConflicts(state') \cup {idx}
                                       ELSE updateConflicts(state') \ {idx}
               /\ statusMsg' = checkWin(state', IF wrong THEN MsgWrong ELSE MsgNone)
    /\ UNCHANGED <<solution, prefilled, selected, pc>>
    /\ UNCHANGED genVars
    /\ UNCHANGED callVars

\* a plausible slip: the window handler does not look at prefilled
OnKeyNoLock(n) ==
    /\ pc = "idle"
    /\ selected # -1
    /\ Len(history) < MaxHistory
    /\ (solution[selected] # n) => mistakes < MaxMistakes
    /\ history' = Append(history, [idx |-> selected, prev |-> state[selected]])
    /\ state' = [state EXCEPT ![selected] = n]
    /\ mistakes' = IF solution[selected] # n THEN mistakes + 1 ELSE mistakes
    /\ conflict' = IF solution[selected] # n THEN updateConflicts(state') \cup {selected}
                                              ELSE updateConflicts(state')
    /\ statusMsg' = checkWin(state', statusMsg)
    /\ UNCHANGED <<solution, prefilled, selected, pc, grid, rows, cols, blocks, frames,
                   order, oi, draws, arg, ret>>

\* 'keydown' on the window with a digit key n while no input has the focus
OnKey(n) ==
    /\ pc = "idle"
    /\ LET idx == selected
           wrong == solution[idx] # n
       IN IF selected = -1
          THEN UNCHANGED <<state, history, mistakes, conflict, statusMsg>>
          ELSE IF prefilled[idx]
          THEN UNCHANGED <<state, history, mistakes, conflict, statusMsg>>
          ELSE /\ Len(history) < MaxHistory
               /\ wrong => mistakes < MaxMistakes
               /\ history' = Append(history, [idx |-> idx, prev |-> state[idx]])
               /\ state' = [state EXCEPT ![idx] = n]
               /\ mistakes' = IF wrong THEN mistakes + 1 ELSE mistakes
               /\ conflict' = IF wrong THEN updateConflicts(state') \cup {idx}
                                       ELSE updateConflicts(state')
               /\ statusMsg' = checkWin(state', statusMsg)
    /\ UNCHANGED <<solution, prefilled, selected, pc>>
    /\ UNCHANGED genVars
    /\ UNCHANGED callVars

\* 'keydown' on the window with an arrow key: delta is -1, 1, -9 or 9
OnArrow(delta) ==
    /\ pc = "idle"
    /\ selected # -1
    /\ LET nx == selected + delta
       IN /\ nx \in Pointable
          /\ selected' = IF nx >= 0 /\ nx < 81 THEN nx ELSE selected
    /\ UNCHANGED <<solution, state, prefilled, mistakes, history, conflict, statusMsg, pc>>
    /\ UNCHANGED genVars
    /\ UNCHANGED callVars

\* the Solve button, confirmed
revealSolution ==
    /\ pc = "idle"
    /\ state' = solution
    /\ conflict' = updateConflicts(state')
    /\ statusMsg' = MsgReveal
    /\ UNCHANGED <<solution, prefilled, selected, mistakes, history, pc>>
    /\ UNCHANGED genVars
    /\ UNCHANGED callVars

\* the Hint button; idx is the cell Math.random picks among the incorrect ones
\* variant: only the empty cells are in the hint pool
incorrectCellsEmptyOnly == {i \in Cells : state[i] = 0}

\* variant: the given cells are in the hint pool too
incorrectCellsOrGiven == {i \in Cells : state[i] = 0 \/ state[i] # solution[i] \/ prefilled[i]}

incorrectCells == {i \in Cells : state[i] = 0 \/ state[i] # solution[i]}

\* a plausible slip: the hint is not recorded in the history
giveHintNoPush ==
    /\ pc = "idle"
    /\ IF incorrectCells = {}
       THEN /\ statusMsg' = MsgNoHint
            /\ UNCHANGED <<state, prefilled, conflict>>
       ELSE \E idx \in incorrectCells :
              /\ state' = [state EXCEPT ![idx] = solution[idx]]
              /\ prefilled' = [prefilled EXCEPT ![idx] = FALSE]
              /\ conflict' = updateConflicts(state')
              /\ statusMsg' = MsgHint
    /\ UNCHANGED <<solution, selected, mistakes, history, pc, grid, rows, cols, blocks,
                   frames, order, oi, draws, arg, ret>>

giveHint ==
    /\ pc = "idle"
    /\ IF incorrectCells = {}
       THEN /\ statusMsg' = MsgNoHint
            /\ UNCHANGED <<state, history, prefilled, conflict>>
       ELSE \E idx \in incorrectCells :
              /\ Len(history) < MaxHistory
              /\ history' = Append(history, [idx |-> idx, prev |-> state[idx]])
              /\ state' = [state EXCEPT ![idx] = solution[idx]]
              /\ prefilled' = [prefilled EXCEPT ![idx] = FALSE]
              /\ conflict' = updateConflicts(state')
              /\ statusMsg' = MsgHint
    /\ UNCHANGED <<solution, selected, mistakes, pc>>
    /\ UNCHANGED genVars
    /\ UNCHANGED callVars

\* a plausible slip: undo blanks the cell instead of writing prev back
undoStateBlank(st, hist) ==
    IF hist = << >> THEN st
    ELSE [st EXCEPT ![hist[Len(hist)].idx] = 0]

\* undo(): the board after the newest entry of hist is taken back
undoState(st, hist) ==
    IF hist = << >> THEN st
    ELSE [st EXCEPT ![hist[Len(hist)].idx] = hist[Len(hist)].prev]

\* the Undo button
\* a plausible slip: undoing an edit takes its mistake back
undoForgives ==
    /\ pc = "idle"
    /\ IF history = << >>
       THEN /\ statusMsg' = MsgNoUndo
            /\ UNCHANGED <<state, history, conflict, mistakes>>
       ELSE /\ history' = SubSeq(history, 1, Len(history) - 1)
            /\ state' = undoState(state, history)
            /\ conflict' = updateConflicts(state')
            /\ mistakes' = IF mistakes > 0 THEN mistakes - 1 ELSE 0
            /\ statusMsg' = MsgUndo
    /\ UNCHANGED <<solution, prefilled, selected, pc, grid, rows, cols, blocks, frames,
                   order, oi, draws, arg, ret>>

\* a plausible slip: the entry is read (history[history.length - 1]) and not
\* popped
undoKeepsEntry ==
    /\ pc = "idle"
    /\ IF history = << >>
       THEN /\ statusMsg' = MsgNoUndo
            /\ UNCHANGED <<state, conflict>>
       ELSE /\ state' = undoState(state, history)
            /\ conflict' = updateConflicts(state')
            /\ statusMsg' = MsgUndo
    /\ UNCHANGED <<solution, prefilled, selected, mistakes, history, pc, grid, rows, cols,
                   blocks, frames, order, oi, draws, arg, ret>>

undo ==
    /\ pc = "idle"
    /\ IF history = << >>
       THEN /\ statusMsg' = MsgNoUndo
            /\ UNCHANGED <<state, history, conflict>>
       ELSE /\ history' = SubSeq(history, 1, Len(history) - 1)
            /\ state' = undoState(state, history)
            /\ conflict' = updateConflicts(state')
            /\ statusMsg' = MsgUndo
    /\ UNCHANGED <<solution, prefilled, selected, mistakes, pc>>
    /\ UNCHANGED genVars
    /\ UNCHANGED callVars

\* the Check button
OnCheck ==
    /\ pc = "idle"
    /\ conflict' = updateConflicts(state)
    /\ statusMsg' = IF conflict' # {} THEN MsgConflicts ELSE MsgNoConflicts
    /\ UNCHANGED <<solution, state, prefilled, selected, mistakes, history, pc>>
    /\ UNCHANGED genVars
    /\ UNCHANGED callVars


Next ==
    \/ \E removals \in 0..MaxRemovals, run \in Runs : newPuzzle(removals, run)
    \/ \E i \in Pointable : OnClick(i)
    \/ \E i \in Pointable : \E text \in InputTexts : OnInput(i, text)
    \/ \E i \in Pointable : OnBackspace(i)
    \/ \E n \in TypedDigits : OnNumpad(n)
    \/ \E n \in TypedDigits : OnKey(n)
    \/ \E delta \in {-1, 1, -9, 9} : OnArrow(delta)
    \/ revealSolution
    \/ giveHint
    \/ undo
    \/ OnCheck

Spec == Init /\ [][Next]_vars

\* ------------------------------------------------------------------------
\* the session without the Reveal button
\* ------------------------------------------------------------------------
NextNoReveal ==
    \/ \E removals \in 0..MaxRemovals, run \in Runs : newPuzzle(removals, run)
    \/ \E i \in Pointable : OnClick(i)
    \/ \E i \in Pointable : \E text \in InputTexts : OnInput(i, text)
    \/ \E i \in Pointable : OnBackspace(i)
    \/ \E n \in TypedDigits : OnNumpad(n)
    \/ \E n \in TypedDigits : OnKey(n)
    \/ \E delta \in {-1, 1, -9, 9} : OnArrow(delta)
    \/ giveHint
    \/ undo
    \/ OnCheck

SpecNoReveal == Init /\ [][NextNoReveal]_vars

\* ------------------------------------------------------------------------
\* generateSolved on its own, on the sequences of draws 1..MaxGenSeqs; the
\* search is the only thing running, so it is never left waiting
\* ------------------------------------------------------------------------
MaxGenSeqs == 40

InitGen == \E q \in 1..MaxGenSeqs : Loaded(q)

SpecGen == InitGen /\ [][GenSteps]_vars /\ WF_vars(GenSteps)

\* ------------------------------------------------------------------------
\* solve and makePuzzle called on their own, on the grid and the order of
\* the runs on the sequences of draws 1..MaxCallSeqs.  solve is called on
\* grids made from the generated grid: the first h cells of the shuffled
\* order are blanked, and the cell at position q of the order may be
\* overwritten with v.  makePuzzle is called with the removals of
\* CarveCounts: 0..MaxCarve and MidCarve in every run and, in the runs on
\* the sequences 1..MaxDeepSeqs, the counts of DeepCarves, which reach and
\* pass the number of cells.  What a call returns does not depend on the
\* calls made before it: each call explored is the first one made
\* ------------------------------------------------------------------------
MaxCallSeqs == 24
MaxDeepSeqs == 1
MaxHoles == 3
MaxPoke == 3
MaxCarve == 3
MidCarve == 40
MaxCarveAsked == 82
MaxPairRow == 3
MaxPairDigit == 4
DeepCarves == {60, 80, 81, MaxCarveAsked}

CarveCounts(q) ==
    (0..MaxCarve) \cup {MidCarve} \cup (IF q <= MaxDeepSeqs THEN DeepCarves ELSE {})

InitCalls == \E q \in 1..MaxCallSeqs : Loaded(q)

\* the generated grid with the first h cells of the order blanked
blanked(h) == [i \in Cells |-> IF \E k \in 0..(h - 1) : order[k] = i THEN 0 ELSE grid[i]]

\* a call of solve: on blanked(h), for v > 0 with cell order[q] overwritten
\* by v (a grid that may hold a duplicate)
CallSolve(h, q, v) ==
    /\ pc = "makePuzzle"
    /\ oi = 0
    /\ arg' = [fn |-> "solve",
               grid |-> IF v = 0 THEN blanked(h) ELSE [blanked(h) EXCEPT ![order[q]] = v]]
    /\ ret' = solve(arg'.grid)
    /\ UNCHANGED pc
    /\ UNCHANGED sessionVars
    /\ UNCHANGED genVars

\* the generated grid with digits a and b blanked in rows r and q: four
\* blanks, which have two completions when the four cells form a rectangle
pairBlanked(r, q, a, b) ==
    [i \in Cells |-> IF i \div 9 \in {r, q} /\ grid[i] \in {a, b} THEN 0 ELSE grid[i]]

\* a call of solve: on pairBlanked(r, q, a, b), for v > 0 with the first
\* blank filled with v (a or b: a grid that may have no completion)
CallSolvePair(r, q, a, b, v) ==
    /\ pc = "makePuzzle"
    /\ oi = 0
    /\ r < q
    /\ a < b
    /\ v \in {0, a, b}
    /\ arg' = [fn |-> "solve",
               grid |-> IF v = 0 THEN pairBlanked(r, q, a, b)
                        ELSE [pairBlanked(r, q, a, b)
                                EXCEPT ![findEmpty(pairBlanked(r, q, a, b))] = v]]
    /\ ret' = solve(arg'.grid)
    /\ UNCHANGED pc
    /\ UNCHANGED sessionVars
    /\ UNCHANGED genVars

CallMakePuzzle(removals) ==
    /\ pc = "makePuzzle"
    /\ oi = 0
    /\ arg' = [fn |-> "makePuzzle", solved |-> grid, removals |-> removals]
    /\ ret' = carve(grid, order, removals)
    /\ UNCHANGED pc
    /\ UNCHANGED sessionVars
    /\ UNCHANGED genVars

NextCalls ==
    \/ GenSteps
    \/ ShuffleSteps
    \/ \E h \in 0..MaxHoles, q \in 0..MaxPoke, v \in 0..9 : arg.fn = "none" /\ CallSolve(h, q, v)
    \/ \E r \in 0..MaxPairRow, q \in 0..MaxPairRow,
          a \in 1..MaxPairDigit, b \in 1..MaxPairDigit, v \in 0..MaxPairDigit :
          arg.fn = "none" /\ CallSolvePair(r, q, a, b, v)
    \/ \E removals \in 0..MaxCarveAsked :
          arg.fn = "none" /\ removals \in CarveCounts(draws.seq) /\ CallMakePuzzle(removals)

SpecCalls == InitCalls /\ [][NextCalls]_vars

\* ------------------------------------------------------------------------
\* The session with the call of newPuzzle at script load (line 301) taken
\* step by step, on the sequences of draws 1..MaxLoadSeqs: generateSolved,
\* the shuffle of makePuzzle, then InstallPuzzle, the rest of the call.  The
\* selector is at 0, and in the runs on the sequences 1..MaxLoadBlankSeqs at
\* any of 0..MaxLoadRemovals.  The player's events and the clicks on New
\* are handled once the script has run
\* ------------------------------------------------------------------------
MaxLoadSeqs == 40
MaxLoadBlankSeqs == 2
MaxLoadRemovals == 1

\* the rest of newPuzzle after the shuffle of makePuzzle: the loop of
\* makePuzzle (lines 161-170) and lines 235-238.  The locals of
\* generateSolved and makePuzzle are gone when the call returns
InstallPuzzle(removals) ==
    /\ pc = "makePuzzle"
    /\ oi = 0
    /\ state' = carve(grid, order, removals)
    /\ prefilled' = [i \in Cells |-> state'[i] # 0]
    /\ conflict' = updateConflicts(state')
    /\ mistakes' = 0
    /\ history' = << >>
    /\ statusMsg' = MsgNew
    /\ pc' = "idle"
    /\ grid' = genStart.grid
    /\ rows' = genStart.rows
    /\ cols' = genStart.cols
    /\ blocks' = genStart.blocks
    /\ frames' = genStart.frames
    /\ order' = [i \in Cells |-> i]
    /\ oi' = 80
    /\ draws' = [seq |-> 1, calls |-> 1]
    /\ UNCHANGED <<solution, selected>>
    /\ UNCHANGED callVars

InitLoad == \E q \in 1..MaxLoadSeqs : Loaded(q)

NextLoad ==
    \/ GenSteps
    \/ ShuffleSteps
    \/ \E removals \in 0..MaxLoadRemovals :
          (removals = 0 \/ draws.seq <= MaxLoadBlankSeqs) /\ InstallPuzzle(removals)
    \/ pc = "idle" /\ Next

SpecLoad == InitLoad /\ [][NextLoad]_vars

\* ------------------------------------------------------------------------
\* Vocabulary of the properties
\* ------------------------------------------------------------------------
rowOf(i) == i \div 9
colOf(i) == i % 9
blockOf(i) == (rowOf(i) \div 3) * 3 + (colOf(i) \div 3)

\* two different cells of one row, column or block
sameUnit(i, j) ==
    i # j /\ (rowOf(i) = rowOf(j) \/ colOf(i) = colOf(j) \/ blockOf(i) = blockOf(j))

\* the non-empty cells whose value is repeated in their row, column or block
duplicated(st) ==
    {i \in Cells : st[i] # 0 /\ \E j \in Cells : sameUnit(i, j) /\ st[j] = st[i]}

\* every row, column and block holds each of 1..9 exactly once: the nine
\* cells of the unit carry nine different values, all of them digits
solvedGrid(g) ==
    \A u \in 0..8 :
      /\ {g[u * 9 + k] : k \in 0..8} = Digits
      /\ {g[k * 9 + u] : k \in 0..8} = Digits
      /\ {g[((u \div 3) * 3 + (k \div 3)) * 9 + ((u % 3) * 3 + (k % 3))] : k \in 0..8} = Digits

\* every cell is filled and agrees with the answer key
allCorrect(st, sol) == \A i \in Cells : st[i] # 0 /\ st[i] = sol[i]

zeroCount(g) == Cardinality({i \in Cells : g[i] = 0})

\* a step of one of the three handlers that set a cell, on an editable cell
\* (in the properties below an implication A => B about such a step is
\* written B \/ ~A where B is the cheaper test)
setsByInput(i) == ~prefilled[i] /\ \E text \in InputTexts : OnInput(i, text)
setsByPad == selected # -1 /\ ~prefilled[selected] /\ \E n \in TypedDigits : OnNumpad(n)
setsByKey == selected # -1 /\ ~prefilled[selected] /\ \E n \in TypedDigits : OnKey(n)

\* ------------------------------------------------------------------------
\* C1: setCell(i, v) on a cell that is not given, followed at once by
\* undo(), leaves state[i] as it was before the setCell - as first stated,
\* for every v, also v = state[i], and whatever the history holds
\* ------------------------------------------------------------------------
C1_RoundTripAnyValue ==
    [][/\ \A i \in Pointable : undoState(state', history')[i] = state[i] \/ ~setsByInput(i)
       /\ \/ selected = -1
          \/ undoState(state', history')[selected] = state[selected]
          \/ ~(setsByPad \/ setsByKey)
      ]_vars

\* C1 as amended: through the text input the round trip holds when v differs
\* from state[i] or the history is empty; through the number pad and the
\* window key handler it holds for every v
C1_RoundTrip ==
    [][/\ \A i \in Pointable :
            \/ undoState(state', history')[i] = state[i]
            \/ ~((state'[i] # state[i] \/ history = << >>) /\ setsByInput(i))
       /\ \/ selected = -1
          \/ undoState(state', history')[selected] = state[selected]
          \/ ~(setsByPad \/ setsByKey)
      ]_vars

\* a wrong digit has just been set over an earlier edit: two entries are on
\* the history and undo takes the newest back
C1_Witness ==
    /\ pc = "idle"
    /\ Len(history) = 2
    /\ statusMsg = MsgWrong
    /\ ~prefilled[history[2].idx]
    /\ state[history[2].idx] # history[2].prev
    /\ undoState(state, history)[history[2].idx] = history[2].prev

\* ------------------------------------------------------------------------
\* C2: every given cell holds its solution value in every state, and no
\* step other than newPuzzle changes the value of a cell that is given
\* ------------------------------------------------------------------------
C2_GivenCellsKept ==
    [][/\ \A i \in Cells : prefilled'[i] => state'[i] = solution'[i]
       /\ (pc = "idle" /\ \E i \in Cells : prefilled[i] /\ state'[i] # state[i])
             => \E r \in 0..MaxRemovals, run \in Runs : newPuzzle(r, run)
      ]_vars

\* after edits and an undo, the given cells of a puzzle with blanks
C2_Witness ==
    /\ pc = "idle"
    /\ statusMsg = MsgUndo
    /\ mistakes > 0
    /\ \E i \in Cells : prefilled[i] /\ state[i] = solution[i]
    /\ \E i \in Cells : ~prefilled[i]

\* ------------------------------------------------------------------------
\* C3: an edit of a given cell, through the text input, Backspace/Delete,
\* the number pad or the window key handler, changes neither state, nor
\* history, nor mistakes, nor the given mask
\* ------------------------------------------------------------------------
C3_LockedEditNoOp ==
    [][\/ UNCHANGED <<state, history, mistakes, prefilled>>
       \/ /\ \A i \in Pointable :
                ~(prefilled[i] /\ ((\E text \in InputTexts : OnInput(i, text)) \/ OnBackspace(i)))
          /\ ~(selected # -1 /\ prefilled[selected]
                  /\ \E n \in TypedDigits : OnNumpad(n) \/ OnKey(n))
      ]_vars

\* the number pad has just refused a given cell
C3_Witness ==
    /\ pc = "idle"
    /\ selected # -1
    /\ prefilled[selected]
    /\ statusMsg = MsgLocked
    /\ state[selected] = solution[selected]

\* ------------------------------------------------------------------------
\* C4: solve(grid) reports failure or returns a grid whose rows, columns and
\* blocks each hold 1..9 exactly once, also for a grid that already holds a
\* duplicate
\* ------------------------------------------------------------------------
C4_SolveValidOrFailure ==
    (arg.fn = "solve" /\ ret # null) => solvedGrid(ret)

\* ------------------------------------------------------------------------
\* C5: a grid returned by solve agrees with the input on every cell that
\* was filled in the input
\* ------------------------------------------------------------------------
C5_SolveKeepsFilled ==
    (arg.fn = "solve" /\ ret # null)
        => \A i \in Cells : arg.grid[i] # 0 => ret[i] = arg.grid[i]

\* solve has filled the blanks of a grid with several blanks
C5_Witness ==
    /\ arg.fn = "solve"
    /\ ret # null
    /\ zeroCount(arg.grid) >= 2
    /\ zeroCount(ret) = 0

\* ------------------------------------------------------------------------
\* C6: the grid makePuzzle returns can be solved and has at most
\* min(removals, 81) blank cells
\* ------------------------------------------------------------------------
C6_CarveSolvable ==
    arg.fn = "makePuzzle"
        => /\ solve(ret) # null
           /\ zeroCount(ret) <= (IF arg.removals < 81 THEN arg.removals ELSE 81)

\* makePuzzle, asked for more removals than there are cells, has blanked
\* every cell of a solved grid
C6_Witness ==
    /\ arg.fn = "makePuzzle"
    /\ solvedGrid(arg.solved)
    /\ arg.removals > 81
    /\ zeroCount(ret) = 81

\* ------------------------------------------------------------------------
\* C7: generateSolved ends, and the grid it returns is complete with every
\* row, column and block a permutation of 1..9
\* ------------------------------------------------------------------------
C7_GenerateSolved == <>(pc = "makePuzzle" /\ solvedGrid(grid))

\* the search is over and has filled the grid
C7_Witness ==
    /\ pc = "makePuzzle"
    /\ frames = << >>
    /\ zeroCount(grid) = 0
    /\ solvedGrid(grid)

\* ------------------------------------------------------------------------
\* C8: after every operation the conflict marks are exactly the non-empty
\* cells whose value is repeated in their row, column or block
\* ------------------------------------------------------------------------
C8_ConflictsFresh == pc = "idle" => conflict = duplicated(state)

\* ------------------------------------------------------------------------
\* C9: the win test is true exactly when every cell is filled and agrees
\* with the solution: it is true right after revealSolution, and from a
\* board where it is true a step that changes one cell to a value other
\* than its solution value (0 included) makes it false; an edit through the
\* text input or the number pad announces the win exactly when the test is
\* true of the board it leaves, and an edit through the window key handler
\* announces it whenever the test is true
\* ------------------------------------------------------------------------
C9_WinDetection ==
    [][/\ revealSolution => isSolved(state', solution')
       /\ (/\ pc = "idle"
           /\ isSolved(state, solution)
           /\ solution' = solution
           /\ \E i \in Cells : /\ state'[i] # solution[i]
                                /\ state' = [state EXCEPT ![i] = state'[i]])
             => ~isSolved(state', solution')
       /\ \/ statusMsg' = MsgWin <=> allCorrect(state', solution')
          \/ ~((\E i \in Pointable : setsByInput(i)) \/ setsByPad)
       /\ \/ statusMsg' = MsgWin
          \/ ~(allCorrect(state', solution') /\ setsByKey)
      ]_vars

\* an edit has completed the board and the win is announced
C9_Witness ==
    /\ pc = "idle"
    /\ statusMsg = MsgWin
    /\ allCorrect(state, solution)
    /\ history # << >>
    /\ history[Len(history)].prev # solution[history[Len(history)].idx]

\* ------------------------------------------------------------------------
\* C10: hint() with a cell that is empty or wrong sets one such cell to its
\* solution value, pushes the one entry (cell, old value) and leaves the
\* other cells, the mistake count and the given mask alone; with no such cell it changes
\* nothing; with exactly one such cell the board is complete afterwards
\* ------------------------------------------------------------------------
C10_Hint ==
    [][giveHint =>
         LET pool == {i \in Cells : state[i] = 0 \/ state[i] # solution[i]}
         IN IF pool = {}
            THEN UNCHANGED <<state, history, mistakes, prefilled>>
            ELSE /\ \E i \in pool :
                      /\ state' = [state EXCEPT ![i] = solution[i]]
                      /\ history' = Append(history, [idx |-> i, prev |-> state[i]])
                 /\ mistakes' = mistakes
                 /\ prefilled' = prefilled
                 /\ Cardinality(pool) = 1 => isSolved(state', solution')
      ]_vars

\* a hint has filled the last empty cell and the board is complete
C10_Witness ==
    /\ pc = "idle"
    /\ statusMsg = MsgHint
    /\ history # << >>
    /\ history[Len(history)].prev = 0
    /\ allCorrect(state, solution)

\* ------------------------------------------------------------------------
\* C11: between two newPuzzle calls mistakes never decreases; an accepted
\* edit that sets a cell to a digit other than its solution value raises it
\* by exactly one, and every other operation (an edit with the right digit
\* or with 0, Backspace/Delete, undo, hint, revealSolution, an edit refused
\* on a given cell) leaves it as it is
\* ------------------------------------------------------------------------
C11_MistakeCounter ==
    [][/\ (pc = "idle" /\ mistakes' < mistakes) => \E r \in 0..MaxRemovals, run \in Runs : newPuzzle(r, run)
       /\ \A i \in Pointable :
            \/ mistakes' = IF state'[i] # 0 /\ state'[i] # solution[i]
                           THEN mistakes + 1 ELSE mistakes
            \/ ~setsByInput(i)
       /\ \/ mistakes' = mistakes
          \/ /\ \A i \in Pointable :
                   ~(OnBackspace(i) \/ (prefilled[i] /\ \E text \in InputTexts : OnInput(i, text)))
             /\ ~((selected = -1 \/ prefilled[selected])
                    /\ \E n \in TypedDigits : OnNumpad(n) \/ OnKey(n))
             /\ ~(undo \/ giveHint \/ revealSolution)
       /\ \/ selected = -1
          \/ mistakes' = IF state'[selected] # solution[selected]
                         THEN mistakes + 1 ELSE mistakes
          \/ ~(setsByPad \/ setsByKey)
      ]_vars

\* a mistake has been counted and the undo of the wrong edit has left it counted
C11_Witness ==
    /\ pc = "idle"
    /\ mistakes = 1
    /\ statusMsg = MsgUndo
    /\ history = << >>
    /\ \A i \in Cells : state[i] = 0 \/ state[i] = solution[i]

\* ------------------------------------------------------------------------
\* C12: undo() with an empty history changes neither state, nor the given
\* mask, nor mistakes, nor history, and reports that there is nothing to
\* undo; with a non-empty history it removes exactly the newest entry,
\* writes that entry's previous value at that entry's index, and leaves the
\* other cells, the given mask and mistakes as they are
\* ------------------------------------------------------------------------
C12_Undo ==
    [][undo =>
         IF history = << >>
         THEN /\ UNCHANGED <<state, prefilled, mistakes, history>>
              /\ statusMsg' = MsgNoUndo
         ELSE LET entry == history[Len(history)]
              IN /\ history' = [k \in 1..(Len(history) - 1) |-> history[k]]
                 /\ state'[entry.idx] = entry.prev
                 /\ \A i \in Cells \ {entry.idx} : state'[i] = state[i]
                 /\ UNCHANGED <<prefilled, mistakes>>
      ]_vars

\* an undo has taken the newer of two entries and the older one is still there
C12_Witness ==
    /\ pc = "idle"
    /\ statusMsg = MsgUndo
    /\ Len(history) = 1
    /\ state[history[1].idx] # history[1].prev

\* ------------------------------------------------------------------------
\* C13: clearCell(index) is equivalent to setCell(index, 0): from every
\* state and for every index, Backspace/Delete on the cell and the text
\* input emptied on the cell leave the same state, history, mistakes and
\* given mask - both have the effect of setCell(index, 0)
\* ------------------------------------------------------------------------
\* what setCell(i, 0) does: nothing on a given cell; otherwise the cell is
\* emptied and its old value is pushed if it was not empty already
setZeroEffect(i) ==
    IF prefilled[i]
    THEN UNCHANGED <<state, history, mistakes, prefilled>>
    ELSE /\ state' = [state EXCEPT ![i] = 0]
         /\ history' = IF state[i] # 0
                       THEN Append(history, [idx |-> i, prev |-> state[i]])
                       ELSE history
         /\ UNCHANGED <<mistakes, prefilled>>

C13_ClearIsSetZero ==
    [][\A i \in Pointable : (OnInput(i, "") \/ OnBackspace(i)) => setZeroEffect(i)]_vars

\* ------------------------------------------------------------------------
\* C14: an accepted setCell(i, v) on a cell that is not given pushes exactly
\* the entry (i, old value) when v differs from the old value and pushes
\* nothing when v equals it, the same through the text input, the number
\* pad and the window key handler
\* ------------------------------------------------------------------------
pushRule(i) ==
    history' = IF state'[i] # state[i]
               THEN Append(history, [idx |-> i, prev |-> state[i]])
               ELSE history

C14_PushRule ==
    [][/\ \A i \in Pointable : setsByInput(i) => pushRule(i)
       /\ (setsByPad \/ setsByKey) => pushRule(selected)
      ]_vars
\* ------------------------------------------------------------------------
\* C15: on a grid whose filled cells hold no row, column or block duplicate,
\* solve reports failure exactly when the grid has no valid completion, and
\* otherwise returns the completion that is least in lexicographic order
\* over the cell indices 0..80
\* ------------------------------------------------------------------------
Peers == [i \in Cells |-> {j \in Cells : sameUnit(i, j)}]

\* no filled cell repeats the value of a cell of its row, column or block
consistent(g) == \A i \in Cells : g[i] # 0 => \A j \in Peers[i] : g[j] # g[i]

\* g with its blanks filled from f
filledWith(g, f) == [i \in Cells |-> IF g[i] = 0 THEN f[i] ELSE g[i]]

\* the full grids without duplicate that agree with g on its filled cells;
\* g being consistent, only the filled-in cells can bring a duplicate
completions(g) ==
    LET blanks == {i \in Cells : g[i] = 0}
    IN {filledWith(g, f) :
          f \in {h \in [blanks -> Digits] :
                   \A i \in blanks : \A j \in Peers[i] : (IF g[j] = 0 THEN h[j] ELSE g[j]) # h[i]}}

\* c comes strictly before d in lexicographic order over the cell indices
lexBefore(c, d) == \E i \in Cells : c[i] < d[i] /\ \A j \in 0..(i - 1) : c[j] = d[j]

C15_SolveLeastCompletion ==
    (arg.fn = "solve" /\ consistent(arg.grid))
        => LET all == completions(arg.grid)
           IN /\ ret = null <=> all = {}
              /\ ret # null => ret \in all /\ \A c \in all : c = ret \/ lexBefore(ret, c)

\* solve has returned one of several completions of a consistent grid
C15_Witness ==
    /\ arg.fn = "solve"
    /\ consistent(arg.grid)
    /\ ret # null
    /\ Cardinality(completions(arg.grid)) >= 2

\* solve has reported failure on a consistent grid with blanks
C15_FailureReached ==
    /\ arg.fn = "solve"
    /\ consistent(arg.grid)
    /\ zeroCount(arg.grid) > 0
    /\ ret = null

\* ------------------------------------------------------------------------
\* C16: whatever the session state before, after a new puzzle the history
\* is empty, mistakes is 0, solution is a solved grid, every cell of state
\* is 0 or the solution's value, and the given cells are exactly the
\* non-empty cells of state
\* ------------------------------------------------------------------------
C16_NewPuzzlePost ==
    [][\/ statusMsg' # MsgNew
       \/ /\ history' = << >>
          /\ mistakes' = 0
          /\ solvedGrid(solution')
          /\ \A i \in Cells : state'[i] = 0 \/ state'[i] = solution'[i]
          /\ \A i \in Cells : prefilled'[i] <=> state'[i] # 0
       \/ ~(\/ \E r \in 0..MaxRemovals, run \in Runs : newPuzzle(r, run)
            \/ \E r \in 0..MaxLoadRemovals : InstallPuzzle(r))
      ]_vars

\* a new puzzle with blanks, asked for after a cell had been selected
C16_Witness ==
    /\ pc = "idle"
    /\ statusMsg = MsgNew
    /\ selected # -1
    /\ history = << >>
    /\ mistakes = 0
    /\ zeroCount(state) >= 1
    /\ solvedGrid(solution)

\* ------------------------------------------------------------------------
\* C17: after a new puzzle and any sequence of cell edits, clears, hints
\* and undos (no reveal), undoing until the history is empty gives back
\* exactly the carved puzzle the new puzzle installed
\* ------------------------------------------------------------------------
RECURSIVE rewind(_, _)
\* the board after undo has been applied until hist is empty
rewind(st, hist) ==
    IF hist = << >> THEN st
    ELSE rewind(undoState(st, hist), SubSeq(hist, 1, Len(hist) - 1))

\* the carved puzzle: the given cells hold the solution, the others are
\* empty (the given mask is the one the new puzzle installed, see C18)
carved == [i \in Cells |-> IF prefilled[i] THEN solution[i] ELSE 0]

C17_FullRewind == pc = "idle" => rewind(state, history) = carved

\* a history of two entries, the newer one over a cell that held a digit,
\* on a board that differs from the carved puzzle
C17_Witness ==
    /\ pc = "idle"
    /\ Len(history) = 2
    /\ history[2].prev # 0
    /\ state # carved
    /\ rewind(state, history) = carved

\* ------------------------------------------------------------------------
\* C18: the given mask is constant between two new puzzles: the hint pool
\* never holds a given cell, and no cell edit, clear, undo, hint or reveal
\* adds a cell to the given cells or removes one
\* ------------------------------------------------------------------------
C18_GivenMaskConstant ==
    [][/\ pc = "idle" => \A i \in incorrectCells : ~prefilled[i]
       /\ (pc = "idle" /\ prefilled' # prefilled) => \E r \in 0..MaxRemovals, run \in Runs : newPuzzle(r, run)
      ]_vars

\* a hint has filled an editable cell of a puzzle that has given cells and
\* still has a cell in the hint pool
C18_Witness ==
    /\ pc = "idle"
    /\ statusMsg = MsgHint
    /\ history # << >>
    /\ ~prefilled[history[Len(history)].idx]
    /\ incorrectCells # {}
    /\ \E i \in Cells : prefilled[i]

\* ------------------------------------------------------------------------
\* C19: in every reachable session state where the board is solved (every
\* cell filled and equal to the solution), the set of conflicting cells
\* computed from the board is empty: no value is repeated in a row, column
\* or block
\* ------------------------------------------------------------------------
C19_SolvedNoConflict ==
    (pc = "idle" /\ isSolved(state, solution))
        => updateConflicts(state) = {} /\ duplicated(state) = {}

\* the Check button has been pressed on a solved board
C19_Witness ==
    /\ pc = "idle"
    /\ statusMsg = MsgNoConflicts
    /\ isSolved(state, solution)

\* ------------------------------------------------------------------------
\* C20: with k cells that are empty or differ from the solution, a hint
\* brings that count to k - 1 whichever cell is drawn, the board is solved
\* exactly when the count is 0, and a hint on a solved board changes
\* nothing; so k hints in a row solve the board
\* ------------------------------------------------------------------------
\* the cells that are empty or wrong
unsolved(st, sol) == {i \in Cells : st[i] = 0 \/ st[i] # sol[i]}

C20_HintProgress ==
    [][giveHint =>
         LET k == Cardinality(unsolved(state, solution))
             kAfter == Cardinality(unsolved(state', solution'))
         IN /\ k = 0 <=> isSolved(state, solution)
            /\ kAfter = 0 <=> isSolved(state', solution')
            /\ IF k = 0
               THEN UNCHANGED <<state, history, mistakes, prefilled, solution>>
               ELSE kAfter = k - 1
      ]_vars

\* a hint has solved a puzzle with two blanks, both filled without a mistake
\* (two hints in a row on the fresh puzzle end here)
C20_Witness ==
    /\ pc = "idle"
    /\ statusMsg = MsgHint
    /\ mistakes = 0
    /\ Len(history) = 2
    /\ history[1].prev = 0
    /\ history[2].prev = 0
    /\ history[1].idx # history[2].idx
    /\ ~prefilled[history[1].idx]
    /\ ~prefilled[history[2].idx]
    /\ isSolved(state, solution)

\* a hint on a solved board: nothing to reveal
C20_NoHintLeft ==
    /\ pc = "idle"
    /\ statusMsg = MsgNoHint
    /\ isSolved(state, solution)

====
